---- MODULE Spec2Model ----
(***************************************************************************)
(* Model of data_utils/dollar_bars.py: the DollarBars sampler.             *)
(*                                                                         *)
(* A DollarBars object is constructed from (threshold, min_ticks); its     *)
(* create() walks a tick table once and cuts it into bars; create_lazy()   *)
(* only adds two columns to the table.  Prices, volumes and thresholds are *)
(* small integers, so the float arithmetic of the source is exact here.    *)
(* Row indices are 0-based as in the source; TLA+ sequences are 1-based,   *)
(* so At(arr, k) reads arr[k] of the source.                               *)
(***************************************************************************)
EXTENDS Integers, Sequences, FiniteSets

VARIABLES pc, args, self, data, cum_dollar_volume, current_bar_start,
          current_cum_dv, i, bars, bar_ticks, result, lazy_called,
          lazy_result

vars == <<pc, args, self, data, cum_dollar_volume, current_bar_start,
          current_cum_dv, i, bars, bar_ticks, result, lazy_called,
          lazy_result>>

(* ---------------------------- bounds ----------------------------------- *)
MaxLen == 3
MaxPrice == 2
MaxVolume == 1
MaxThreshold == 2
MaxMinTicks == 2

Prices == 1..MaxPrice
Volumes == 0..MaxVolume
Thresholds == 0..MaxThreshold
MinTicksValues == 0..MaxMinTicks

(* A tick table of n rows: the price and volume columns are free, the      *)
(* timestamp column is strictly increasing (row k carries timestamp k).    *)
TickTables(n) ==
    { [k \in 1..n |-> [timestamp |-> k, price |-> f[k][1], volume |-> f[k][2]]]
        : f \in [1..n -> Prices \X Volumes] }

AllTickTables == UNION { TickTables(n) : n \in 0..MaxLen }

(* ---------------------------- helpers ---------------------------------- *)
RECURSIVE SumTo(_, _)
SumTo(xs, k) == IF k = 0 THEN 0 ELSE SumTo(xs, k - 1) + xs[k]

RECURSIVE MaxTo(_, _)
MaxTo(xs, k) ==
    IF k = 1 THEN xs[1]
    ELSE IF xs[k] > MaxTo(xs, k - 1) THEN xs[k] ELSE MaxTo(xs, k - 1)

RECURSIVE MinTo(_, _)
MinTo(xs, k) ==
    IF k = 1 THEN xs[1]
    ELSE IF xs[k] < MinTo(xs, k - 1) THEN xs[k] ELSE MinTo(xs, k - 1)

(* arr[k] with the source's 0-based index *)
At(arr, k) == arr[k + 1]

(* frame[col] : one column of a table *)
Column(frame, col) == [k \in 1..Len(frame) |-> frame[k][col]]

(* data[lo:hi] : rows lo .. hi-1 of the source's 0-based table *)
Slice(frame, lo, hi) == SubSeq(frame, lo + 1, hi)

(* prices * volumes *)
DollarVolumes(frame) ==
    [k \in 1..Len(frame) |-> frame[k].price * frame[k].volume]

(* np.cumsum *)
CumSum(xs) == [k \in 1..Len(xs) |-> SumTo(xs, k)]

(* ------------------------- DollarBars.__init__ ------------------------- *)
(* variant: min_ticks below 1 is silently raised to 1 *)
InitFieldsClamped(threshold, min_ticks) ==
    [threshold |-> threshold,
     min_ticks |-> IF min_ticks < 1 THEN 1 ELSE min_ticks]

(* self.threshold = threshold; self.min_ticks = min_ticks *)
InitFields(threshold, min_ticks) ==
    [threshold |-> threshold, min_ticks |-> min_ticks]

(* ------------------------- DollarBars.create --------------------------- *)
(* cum_dollar_volume[i] - cum_dollar_volume[current_bar_start] *)
CurrentCumDv(cum, idx, start) == At(cum, idx) - At(cum, start)

(* variant: either condition alone closes the bar *)
ThresholdReachedEither(cum_dv, idx, start, builder) ==
    cum_dv >= builder.threshold \/ (idx - start) >= builder.min_ticks

(* the test of the if statement in the loop *)
ThresholdReached(cum_dv, idx, start, builder) ==
    cum_dv >= builder.threshold /\ (idx - start) >= builder.min_ticks

(* bar_data = data[current_bar_start:i+1] *)
BarData(frame, start, idx) == Slice(frame, start, idx + 1)

(* variant: high is taken over the bar's rows but the last *)
MakeBarHighSkipsLast(bar_data, cum_dv) ==
    [timestamp     |-> Column(bar_data, "timestamp")[1],
     open          |-> Column(bar_data, "price")[1],
     high          |-> IF Len(bar_data) = 1
                       THEN Column(bar_data, "price")[1]
                       ELSE MaxTo(Column(bar_data, "price"), Len(bar_data) - 1),
     low           |-> MinTo(Column(bar_data, "price"), Len(bar_data)),
     close         |-> Column(bar_data, "price")[Len(bar_data)],
     volume        |-> SumTo(Column(bar_data, "volume"), Len(bar_data)),
     dollar_volume |-> cum_dv]

(* the dict appended to bars *)
MakeBar(bar_data, cum_dv) ==
    [timestamp     |-> Column(bar_data, "timestamp")[1],
     open          |-> Column(bar_data, "price")[1],
     high          |-> MaxTo(Column(bar_data, "price"), Len(bar_data)),
     low           |-> MinTo(Column(bar_data, "price"), Len(bar_data)),
     close         |-> Column(bar_data, "price")[Len(bar_data)],
     volume        |-> SumTo(Column(bar_data, "volume"), Len(bar_data)),
     dollar_volume |-> cum_dv]

(* variant: the closing tick also opens the next bar *)
NextBarStartAtClosingTick(idx) == idx

(* current_bar_start = i + 1 *)
NextBarStart(idx) == idx + 1

(* The dict handed to pl.DataFrame when no bar was built.  It is passed as *)
(* the frame's data (first positional argument), not as its schema, so    *)
(* each column's value is the dtype object written in the source.  The    *)
(* frame constructor turns a dict of non-sequence values into a frame of  *)
(* one row (releases that refuse such values raise instead); in neither   *)
(* case is the outcome a frame of zero rows.                              *)
EmptySchemaDict ==
    [timestamp     |-> "pl.Datetime",
     open          |-> "pl.Float64",
     high          |-> "pl.Float64",
     low           |-> "pl.Float64",
     close         |-> "pl.Float64",
     volume        |-> "pl.Float64",
     dollar_volume |-> "pl.Float64"]

(* pl.DataFrame(bars): one row per dict of the list *)
FrameOfRows(rows) == rows

(* pl.DataFrame(d) for a dict d of non-sequence values: a one-row frame *)
FrameOfScalars(d) == <<d>>

(* the frame create() hands back *)
CreateResult(bs) ==
    IF bs # <<>> THEN FrameOfRows(bs) ELSE FrameOfScalars(EmptySchemaDict)

(* ------------------------- DollarBars.create_lazy ---------------------- *)
(* the input rows with the dollar_volume and cum_dollar_volume columns     *)
LazyFrame(frame) ==
    [k \in 1..Len(frame) |->
        [timestamp         |-> frame[k].timestamp,
         price             |-> frame[k].price,
         volume            |-> frame[k].volume,
         dollar_volume     |-> DollarVolumes(frame)[k],
         cum_dollar_volume |-> CumSum(DollarVolumes(frame))[k]]]

(* ---------------------------- state machine ---------------------------- *)
Init ==
    /\ pc = "new"
    /\ args \in [threshold : Thresholds, min_ticks : MinTicksValues]
    /\ self = <<>>
    /\ data \in AllTickTables
    /\ cum_dollar_volume = <<>>
    /\ current_bar_start = 0
    /\ current_cum_dv = 0
    /\ i = 0
    /\ bars = <<>>
    /\ bar_ticks = <<>>
    /\ result = <<>>
    /\ lazy_called = FALSE
    /\ lazy_result = <<>>

(* DollarBars(threshold, min_ticks) *)
Construct ==
    /\ pc = "new"
    /\ self' = InitFields(args.threshold, args.min_ticks)
    /\ pc' = "ready"
    /\ UNCHANGED <<args, data, cum_dollar_volume, current_bar_start,
                   current_cum_dv, i, bars, bar_ticks, result, lazy_called,
                   lazy_result>>

(* create(): everything before the loop *)
CreateBegin ==
    /\ pc = "ready"
    /\ cum_dollar_volume' = CumSum(DollarVolumes(data))
    /\ bars' = <<>>
    /\ bar_ticks' = <<>>
    /\ current_bar_start' = 0
    /\ current_cum_dv' = 0
    /\ i' = 0
    /\ pc' = "loop"
    /\ UNCHANGED <<args, self, data, result, lazy_called, lazy_result>>

(* one iteration of the loop whose tick closes a bar *)
CreateStepClose ==
    /\ pc = "loop"
    /\ i < Len(data)
    /\ LET cum_dv == CurrentCumDv(cum_dollar_volume, i, current_bar_start)
       IN /\ ThresholdReached(cum_dv, i, current_bar_start, self)
          /\ current_cum_dv' = cum_dv
          /\ bars' = Append(bars,
                       MakeBar(BarData(data, current_bar_start, i), cum_dv))
          /\ bar_ticks' = Append(bar_ticks, BarData(data, current_bar_start, i))
          /\ current_bar_start' = NextBarStart(i)
    /\ i' = i + 1
    /\ UNCHANGED <<pc, args, self, data, cum_dollar_volume, result,
                   lazy_called, lazy_result>>

(* one iteration of the loop whose tick leaves the bar open *)
CreateStepKeep ==
    /\ pc = "loop"
    /\ i < Len(data)
    /\ LET cum_dv == CurrentCumDv(cum_dollar_volume, i, current_bar_start)
       IN /\ ~ThresholdReached(cum_dv, i, current_bar_start, self)
          /\ current_cum_dv' = cum_dv
    /\ i' = i + 1
    /\ UNCHANGED <<pc, args, self, data, cum_dollar_volume, current_bar_start,
                   bars, bar_ticks, result, lazy_called, lazy_result>>

(* the loop has run out of rows: build the returned frame *)
CreateReturn ==
    /\ pc = "loop"
    /\ i = Len(data)
    /\ result' = CreateResult(bars)
    /\ pc' = "done"
    /\ UNCHANGED <<args, self, data, cum_dollar_volume, current_bar_start,
                   current_cum_dv, i, bars, bar_ticks, lazy_called,
                   lazy_result>>

(* create_lazy() on the same table, called once create() has returned *)
CreateLazy ==
    /\ pc = "done"
    /\ ~lazy_called
    /\ lazy_result' = LazyFrame(data)
    /\ lazy_called' = TRUE
    /\ UNCHANGED <<pc, args, self, data, cum_dollar_volume, current_bar_start,
                   current_cum_dv, i, bars, bar_ticks, result>>

Next ==
    \/ Construct
    \/ CreateBegin
    \/ CreateStepClose
    \/ CreateStepKeep
    \/ CreateReturn
    \/ CreateLazy

Spec == Init /\ [][Next]_vars

(* ------------- the same machine on tables of arbitrary ticks ----------- *)
(* create() takes whatever the price and volume columns hold: prices of    *)
(* zero or below and volumes below zero included.                          *)
RawPrices == -1..MaxPrice
RawVolumes == -1..MaxVolume

RawTickTables(n) ==
    { [k \in 1..n |-> [timestamp |-> k, price |-> f[k][1], volume |-> f[k][2]]]
        : f \in [1..n -> RawPrices \X RawVolumes] }

RawTickTablesUpTo(len) == UNION { RawTickTables(n) : n \in 0..len }

InitRaw ==
    /\ pc = "new"
    /\ args \in [threshold : Thresholds, min_ticks : MinTicksValues]
    /\ self = <<>>
    /\ data \in RawTickTablesUpTo(MaxLen)
    /\ cum_dollar_volume = <<>>
    /\ current_bar_start = 0
    /\ current_cum_dv = 0
    /\ i = 0
    /\ bars = <<>>
    /\ bar_ticks = <<>>
    /\ result = <<>>
    /\ lazy_called = FALSE
    /\ lazy_result = <<>>

SpecRaw == InitRaw /\ [][Next]_vars

(* ------------------- vocabulary of the properties ---------------------- *)
(* sum of price * volume over rows 1..k of a run of ticks *)
RECURSIVE TickDollarsTo(_, _)
TickDollarsTo(rows, k) ==
    IF k = 0 THEN 0
    ELSE TickDollarsTo(rows, k - 1) + rows[k].price * rows[k].volume

(* sum of volume over rows 1..k of a run of ticks *)
RECURSIVE TickVolumeTo(_, _)
TickVolumeTo(rows, k) ==
    IF k = 0 THEN 0 ELSE TickVolumeTo(rows, k - 1) + rows[k].volume

(* the closing rule as specified, after k ticks of a bar *)
RuleMet(rows, k) ==
    /\ TickDollarsTo(rows, k) >= self.threshold
    /\ k >= self.min_ticks

(* the ticks folded into the bar that is open *)
OpenTicks == Slice(data, current_bar_start, i)

RECURSIVE Flatten(_)
Flatten(seqs) ==
    IF seqs = <<>> THEN <<>> ELSE Head(seqs) \o Flatten(Tail(seqs))

Running == pc \in {"loop", "done"}

(* a configuration of the data model: threshold > 0 and min_ticks >= 1 *)
ValidConfig == self.threshold > 0 /\ self.min_ticks >= 1

(* C1: a bar closes exactly at the first of its ticks at which the dollar  *)
(* volume summed from its first tick is >= threshold and its tick count is *)
(* >= min_ticks: never before that tick, never after it.  Stated for the   *)
(* configurations of the data model.                                       *)
C1_ClosesAtFirstQualifyingTick ==
    (Running /\ ValidConfig) =>
        /\ \A b \in 1..Len(bar_ticks) :
              /\ RuleMet(bar_ticks[b], Len(bar_ticks[b]))
              /\ \A k \in 1..(Len(bar_ticks[b]) - 1) : ~RuleMet(bar_ticks[b], k)
        /\ \A k \in 1..Len(OpenTicks) : ~RuleMet(OpenTicks, k)

(* C2: every emitted bar has dollar_volume >= threshold and holds at least *)
(* min_ticks ticks, both at once.                                          *)
C2_BarsMeetThresholdAndMinTicks ==
    Running =>
        \A b \in 1..Len(bars) :
            /\ bars[b].dollar_volume >= self.threshold
            /\ Len(bar_ticks[b]) >= self.min_ticks

C2_Witness ==
    /\ pc = "done"
    /\ Len(bars) >= 1
    /\ self.min_ticks = 2
    /\ self.threshold = 2
    /\ bars[1].dollar_volume > self.threshold

(* C3: the bars' tick runs are non-empty, follow one another in input      *)
(* order without gap or overlap, and followed by the dropped tail they     *)
(* give back the input exactly.                                            *)
C3_BarsPartitionTicks ==
    Running =>
        /\ Len(bar_ticks) = Len(bars)
        /\ \A b \in 1..Len(bar_ticks) : bar_ticks[b] # <<>>
        /\ Flatten(bar_ticks) = Slice(data, 0, current_bar_start)
        /\ \A b \in 1..Len(bars) :
              bars[b].timestamp = bar_ticks[b][1].timestamp
        /\ \A b \in 2..Len(bar_ticks) :
              bar_ticks[b][1].timestamp =
                  bar_ticks[b - 1][Len(bar_ticks[b - 1])].timestamp + 1
        /\ pc = "done" =>
              Flatten(bar_ticks) \o Slice(data, current_bar_start, Len(data))
                  = data

C3_Witness ==
    /\ pc = "done"
    /\ ValidConfig
    /\ Len(bars) = 1
    /\ Len(bar_ticks[1]) = 2
    /\ current_bar_start = 2
    /\ Len(data) = 3

(* C4: open is the first tick's price, close the last tick's price, high   *)
(* the largest and low the smallest price of the bar's own ticks; so low   *)
(* <= open <= high and low <= close <= high.                               *)
C4_OhlcOfConstituentTicks ==
    Running =>
        \A b \in 1..Len(bars) :
            LET rows == bar_ticks[b]
                bar == bars[b]
            IN /\ bar.open = rows[1].price
               /\ bar.close = rows[Len(rows)].price
               /\ \A k \in 1..Len(rows) : rows[k].price <= bar.high
               /\ \E k \in 1..Len(rows) : rows[k].price = bar.high
               /\ \A k \in 1..Len(rows) : rows[k].price >= bar.low
               /\ \E k \in 1..Len(rows) : rows[k].price = bar.low
               /\ bar.low <= bar.open /\ bar.open <= bar.high
               /\ bar.low <= bar.close /\ bar.close <= bar.high

C4_Witness ==
    /\ pc = "done"
    /\ \E b \in 1..Len(bars) :
          /\ Len(bar_ticks[b]) >= 3
          /\ bars[b].high > bars[b].open
          /\ bars[b].low < bars[b].close

(* C5: a bar's volume is the sum of its ticks' volumes and its             *)
(* dollar_volume the sum of price * volume over the same ticks, first tick *)
(* through closing tick.  Stated for the configurations of the data model. *)
C5_VolumeAndDollarVolumeOfSameTicks ==
    (Running /\ ValidConfig) =>
        \A b \in 1..Len(bars) :
            /\ bars[b].volume = TickVolumeTo(bar_ticks[b], Len(bar_ticks[b]))
            /\ bars[b].dollar_volume =
                   TickDollarsTo(bar_ticks[b], Len(bar_ticks[b]))
(* the whole table is one tick repeated *)
ConstantTicks ==
    \A k \in 1..Len(data) :
        data[k].price = data[1].price /\ data[k].volume = data[1].volume

(* ceil(a / b) for a >= 0, b > 0 *)
CeilDiv(a, b) == (a + b - 1) \div b

(* C6: with min_ticks = 1 and N ticks of one price p and one volume v,     *)
(* d = p * v > 0, every bar has k = ceil(threshold / d) ticks, volume k*v  *)
(* and dollar_volume k*d, and floor(N / k) bars are built; in particular a *)
(* tick with p * v >= threshold closes a one-tick bar.                     *)
C6_ConstantTicksGiveBarsOfCeilTicks ==
    (/\ pc = "done"
     /\ self.min_ticks = 1
     /\ self.threshold > 0
     /\ Len(data) >= 1
     /\ ConstantTicks
     /\ data[1].price * data[1].volume > 0) =>
        LET d == data[1].price * data[1].volume
            k == CeilDiv(self.threshold, d)
        IN /\ Len(bars) = Len(data) \div k
           /\ \A b \in 1..Len(bars) :
                 /\ Len(bar_ticks[b]) = k
                 /\ bars[b].volume = k * data[1].volume
                 /\ bars[b].dollar_volume = k * d

(* C7: with min_ticks > 1 and every tick alone worth >= threshold, every   *)
(* bar holds exactly min_ticks ticks.                                      *)
C7_BarsOfExactlyMinTicks ==
    (/\ Running
     /\ self.min_ticks > 1
     /\ self.threshold > 0
     /\ \A k \in 1..Len(data) :
           data[k].price * data[k].volume >= self.threshold) =>
        \A b \in 1..Len(bars) : Len(bar_ticks[b]) = self.min_ticks

(* the closing rule as specified is met nowhere in the table: no run of    *)
(* ticks starting anywhere reaches threshold and min_ticks                 *)
RuleNeverMet ==
    \A lo \in 0..(Len(data) - 1) :
        \A k \in 1..(Len(data) - lo) : ~RuleMet(Slice(data, lo, Len(data)), k)

(* C8: create() returns no trailing partial bar and does not fail for lack *)
(* of bars: for the empty table, and for a table in which the closing rule *)
(* is never met, it returns the empty bar sequence; the ticks after the    *)
(* last closing tick are in no returned bar.                               *)
C8_NoBarsGivesEmptySequence ==
    pc = "done" =>
        /\ (Len(data) = 0 \/ RuleNeverMet) => result = <<>>
        /\ Len(result) = Len(bar_ticks)
        /\ \A b \in 1..Len(bar_ticks) :
              \A k \in 1..Len(bar_ticks[b]) :
                  bar_ticks[b][k].timestamp <= current_bar_start

(* C9: create_lazy() and create() on the same table and configuration give *)
(* the same sequence of bars.                                              *)
C9_LazyEmitsTheSameBars ==
    (pc = "done" /\ lazy_called /\ ValidConfig) =>
        /\ Len(lazy_result) = Len(bars)
        /\ \A b \in 1..Len(bars) :
              /\ DOMAIN lazy_result[b] = DOMAIN bars[b]
              /\ lazy_result[b].timestamp = bars[b].timestamp
              /\ lazy_result[b].volume = bars[b].volume
              /\ lazy_result[b].dollar_volume = bars[b].dollar_volume

(* C10 as stated: a builder is produced only for min_ticks >= 1 (any other *)
(* min_ticks is rejected at construction); threshold <= 0 is accepted.     *)
C10_RejectsMinTicksBelowOne ==
    /\ pc # "new" => args.min_ticks >= 1
    /\ (pc = "new" /\ args.min_ticks >= 1) => ENABLED Construct

(* C10 amended: construction accepts every (threshold, min_ticks), with    *)
(* min_ticks < 1 and threshold <= 0 included, and the builder holds both   *)
(* values exactly as given (nothing is rejected, nothing is clamped).      *)
C10_AcceptsAndStoresAnyConfiguration ==
    /\ pc = "new" => ENABLED Construct
    /\ pc # "new" =>
          /\ self.threshold = args.threshold
          /\ self.min_ticks = args.min_ticks

C10_Witness ==
    /\ pc = "ready"
    /\ args.min_ticks < 1
    /\ args.threshold <= 0
    /\ self.min_ticks < 1
    /\ self.threshold <= 0
(* a tick of the data model: price > 0 and volume >= 0 *)
WellFormed(tick) == tick.price > 0 /\ tick.volume >= 0

(* C11: a tick with price <= 0 or volume < 0 anywhere in the table makes   *)
(* the whole call fail: such a tick is folded into no bar, and create()    *)
(* returns no frame for a table that holds one.  Stated for the           *)
(* configurations of the data model.                                       *)
C11_MalformedTickFailsTheCall ==
    (Running /\ ValidConfig) =>
        /\ \A b \in 1..Len(bar_ticks) :
              \A k \in 1..Len(bar_ticks[b]) : WellFormed(bar_ticks[b][k])
        /\ pc = "done" => \A k \in 1..Len(data) : WellFormed(data[k])
(* C12: a tick closes at most one bar, so the bars built never outnumber   *)
(* the ticks consumed, and the frame create() returns has no more rows     *)
(* than the table it was given.  Stated for the configurations of the data *)
(* model.                                                                  *)
C12_BarsNeverOutnumberTicks ==
    (Running /\ ValidConfig) =>
        /\ Len(bars) <= i
        /\ pc = "done" => Len(result) <= Len(data)
====
